---- MODULE Spec2Model ----
(***************************************************************************)
(* cargo-remote: the remote build pipeline of src/main.rs.                 *)
(*                                                                         *)
(* One run of main(): cargo metadata, configuration loading, remote        *)
(* resolution, build path derivation, then the four blocking external      *)
(* processes Push (rsync), RemoteExecute (ssh), PullArtifact (rsync) and   *)
(* PullLock (rsync), and the final exit code.                              *)
(*                                                                         *)
(* Option<T> is modelled as a sequence of length at most one:              *)
(*   None == <<>>   Some(x) == <<x>>                                       *)
(* A blocking Command::output() call is two steps: the child is spawned    *)
(* (or the spawn fails and output() returns Err), then the child ends and  *)
(* output() returns its ExitStatus.                                        *)
(***************************************************************************)
EXTENDS Integers, Sequences, FiniteSets, TLC

VARIABLES
    pc,            \* position of main()
    remote_opts,   \* RemoteOpts parsed from the command line
    copy_back,     \* Option<Option<String>>
    no_copy_lock,  \* bool
    hidden,        \* bool
    project_dir,   \* workspace_root returned by cargo metadata
    conf_result,   \* Option of the Result of config::Config::new(&project_dir)
    remote,        \* the resolved remote
    build_path,    \* the derived remote build path
    output,        \* the ExitStatus of the ssh process
    invoked,       \* history: the commands main() has built and run, in order
    results,       \* history: per stage, what became of its process
    exit_code,     \* the i32 main() exits with (meaningful when pc = "exited")
    exit_from      \* history: the position main() exited from

vars == <<pc, remote_opts, copy_back, no_copy_lock, hidden, project_dir, conf_result,
          remote, build_path, output, invoked, results, exit_code, exit_from>>

-----------------------------------------------------------------------------
(* Bounds and input domains *)

\* At most this many of the five RemoteOpts fields are given on the command line.
MaxOverrides == 2

None == <<>>
Some(x) == <<x>>

PROGRESS_FLAG == "--info=progress2"

\* Workspace roots cargo metadata may report.
ProjectDirs == {"/home/u/proj", "/home/u/web", "/srv/app"}

\* Remotes a configuration file may define.
RemoteCi ==
    [name |-> "ci", host |-> "build.example.com", ssh_port |-> 2222,
     temp_dir |-> "/tmp/builds", env |-> "/etc/profile"]

RemoteDev ==
    [name |-> "dev", host |-> "dev.local", ssh_port |-> 22,
     temp_dir |-> "rust", env |-> "/home/u/.profile"]

\* What Config::new can return as Ok: no remote, one remote, two remotes.
Configs == {{}, {RemoteCi}, {RemoteCi, RemoteDev}}

OptNames == {None, Some("ci"), Some("dev")}
OptHosts == {None, Some("cli.example.org")}
OptPorts == {None, Some(2200)}
OptTempDirs == {None, Some("/var/cli")}
OptEnvs == {None, Some("/cli/env")}

NumGiven(o) ==
    Len(o.name) + Len(o.host) + Len(o.ssh_port) + Len(o.temp_dir) + Len(o.env)

RemoteOptsSet ==
    {o \in [name : OptNames, host : OptHosts, ssh_port : OptPorts,
            temp_dir : OptTempDirs, env : OptEnvs] : NumGiven(o) <= MaxOverrides}

CopyBacks == {None, Some(None), Some(Some("app"))}

Stages == {"Push", "RemoteExecute", "PullArtifact", "PullLock"}

(* An ExitStatus, and the other things that can become of a stage's process. *)
NotRun == [kind |-> "not_run", code |-> 0]
Running == [kind |-> "running", code |-> 0]
SpawnErr == [kind |-> "spawn_err", code |-> 0]
Signaled == [kind |-> "signal", code |-> 0]
Exited(n) == [kind |-> "exit", code |-> n]

\* rsync: success, or a failed transfer (23: partial transfer due to error).
RsyncOutcomes == {Exited(0), Exited(23)}

\* ssh -t host cmd: the remote command's own status, or 255 when ssh itself
\* fails (host unreachable, authentication refused), or death by a signal.
RemoteStatuses == {0, 1, 4, 251}
SshSessionFailed == Exited(255)
SshOutcomes == {Exited(n) : n \in RemoteStatuses} \cup {SshSessionFailed, Signaled}

\* ExitStatus::success and ExitStatus::code
Success(st) == st.kind = "exit" /\ st.code = 0
Code(st) == IF st.kind = "exit" THEN Some(st.code) ELSE None

\* Option::unwrap_or
UnwrapOr(opt, default) == IF opt = None THEN default ELSE opt[1]

-----------------------------------------------------------------------------
(* Formatting *)

Digit(d) ==
    CASE d = 0 -> "0" [] d = 1 -> "1" [] d = 2 -> "2" [] d = 3 -> "3" [] d = 4 -> "4"
      [] d = 5 -> "5" [] d = 6 -> "6" [] d = 7 -> "7" [] d = 8 -> "8" [] d = 9 -> "9"

\* Display of an unsigned integer: its decimal digits, no padding.
RECURSIVE Decimal(_)
Decimal(n) == IF n < 10 THEN Digit(n) ELSE Decimal(n \div 10) \o Digit(n % 10)

\* DefaultHasher::new() has fixed keys, so finish() is a fixed function of the
\* hashed path.  The table stands for it; two roots share a value, as some
\* roots must, the codomain being finite.
HashOf(dir) ==
    CASE dir = "/home/u/proj" -> 1844674407
      [] dir = "/home/u/web" -> 96025
      [] dir = "/srv/app" -> 1844674407

\* Mutant: the format string without its trailing slash.
BuildPathNoTrailingSlash(dir, temp_dir) == temp_dir \o "/" \o Decimal(HashOf(dir))

\* format!("{}/{}/", remote.temp_dir, hasher.finish())
BuildPath(dir, temp_dir) == temp_dir \o "/" \o Decimal(HashOf(dir)) \o "/"

-----------------------------------------------------------------------------
(* Configuration (mod config): Config::new and Config::get_remote *)

\* What Config::new(&project_dir) can return: Err, or Ok with the remotes read.
ConfigErr == [ok |-> FALSE, remotes |-> {}]
ConfigOk(c) == [ok |-> TRUE, remotes |-> c]
ConfigOutcomes == {ConfigErr} \cup {ConfigOk(c) : c \in Configs}

\* The profile the options select: the named one, or the sole one defined.
SelectedProfile(c, opts) ==
    IF opts.name # None
    THEN {r \in c : r.name = opts.name[1]}
    ELSE IF Cardinality(c) = 1 THEN c ELSE {}

\* Mutant: the profile's value is taken before the command line's.
MergeProfileFirst(override, profile, field, default) ==
    IF profile # {} THEN Some((CHOOSE r \in profile : TRUE)[field])
    ELSE IF override # None THEN override
    ELSE default

\* Option::or over the override, the profile's value, and a built-in default.
Merge(override, profile, field, default) ==
    IF override # None THEN override
    ELSE IF profile # {} THEN Some((CHOOSE r \in profile : TRUE)[field])
    ELSE default

\* conf.get_remote(&remote_opts): Some(remote), or None when nothing to connect to.
get_remote(c, opts) ==
    LET profile == SelectedProfile(c, opts)
        host == Merge(opts.host, profile, "host", None)
        ssh_port == Merge(opts.ssh_port, profile, "ssh_port", Some(22))
        temp_dir == Merge(opts.temp_dir, profile, "temp_dir", None)
        env == Merge(opts.env, profile, "env", Some("/etc/profile"))
    IN  IF host = None \/ temp_dir = None
        THEN None
        ELSE Some([host |-> host[1], ssh_port |-> ssh_port[1],
                   temp_dir |-> temp_dir[1], env |-> env[1]])

\* let conf = match ... { Ok(conf) => conf, ... }
conf == conf_result[1].remotes

NoRemote == [host |-> "", ssh_port |-> 0, temp_dir |-> "", env |-> ""]

-----------------------------------------------------------------------------
(* The commands main() builds *)

build_server == remote.host

\* Mutant: the rsync transport ignores the resolved port.
SshTransportDefaultPort == "ssh -p 22"

\* format!("ssh -p {}", remote.ssh_port)
SshTransport == "ssh -p " \o Decimal(remote.ssh_port)

\* Mutant: dot-files are excluded whatever hidden says.
HiddenExcludeAlways == <<"--exclude", ".*">>

\* if !hidden { rsync_to.arg("--exclude").arg(".*"); }
HiddenExclude == IF ~hidden THEN <<"--exclude", ".*">> ELSE <<>>

\* rsync_to: the project tree to build_server:build_path
PushCommand ==
    [stage |-> "Push", prog |-> "rsync",
     args |-> <<"-a", "--delete", "--compress", "-e", SshTransport, PROGRESS_FLAG,
                "--exclude", "target">>
              \o HiddenExclude
              \o <<"--rsync-path", "mkdir -p rust && rsync",
                   project_dir \o "/",
                   build_server \o ":" \o build_path>>]

\* format!("source {}; cd {}; nix-shell;", remote.env, build_path)
build_command == "source " \o remote.env \o "; cd " \o build_path \o "; nix-shell;"

SshCommand ==
    [stage |-> "RemoteExecute", prog |-> "ssh",
     args |-> <<"-p", Decimal(remote.ssh_port), "-t", build_server, build_command>>]

\* Mutant: the name given to --copy-back is dropped.
FileNameEmpty == ""

\* file_name.unwrap_or_else(String::new), for copy_back = Some(file_name)
file_name == UnwrapOr(copy_back[1], "")

\* Mutant: the pull applies the exclusion of the push.
PullArtifactCommandExcluding ==
    [stage |-> "PullArtifact", prog |-> "rsync",
     args |-> <<"-a", "--delete", "--compress", "-e", SshTransport, PROGRESS_FLAG>>
              \o HiddenExclude
              \o <<build_server \o ":" \o build_path \o "target/" \o file_name,
                   project_dir \o "/target/" \o file_name>>]

\* Command::new("rsync"): build_server:build_path/target/file_name to the project
PullArtifactCommand ==
    [stage |-> "PullArtifact", prog |-> "rsync",
     args |-> <<"-a", "--delete", "--compress", "-e", SshTransport, PROGRESS_FLAG,
                build_server \o ":" \o build_path \o "target/" \o file_name,
                project_dir \o "/target/" \o file_name>>]

PullLockCommand ==
    [stage |-> "PullLock", prog |-> "rsync",
     args |-> <<"-a", "--delete", "--compress", "-e", SshTransport, PROGRESS_FLAG,
                build_server \o ":" \o build_path \o "Cargo.lock",
                project_dir \o "/Cargo.lock">>]

-----------------------------------------------------------------------------
(* main() *)

\* After Opts::from_args(): the options are parsed, nothing else has happened.
Init ==
    /\ pc = "metadata"
    /\ remote_opts \in RemoteOptsSet
    /\ copy_back \in CopyBacks
    /\ no_copy_lock \in BOOLEAN
    /\ hidden \in BOOLEAN
    /\ project_dir = ""
    /\ conf_result = None
    /\ remote = NoRemote
    /\ build_path = ""
    /\ output = NotRun
    /\ invoked = <<>>
    /\ results = [s \in Stages |-> NotRun]
    /\ exit_code = 0
    /\ exit_from = ""

\* std::process::exit(code)
Exit(code) ==
    /\ pc' = "exited"
    /\ exit_code' = code
    /\ exit_from' = pc

NoExit == UNCHANGED <<exit_code, exit_from>>

\* A panic in main() ends the process with status 101.
PanicCode == 101

\* Command::output() up to the spawn: the child runs, or output() is Err and
\* the unwrap_or_else closure exits with the stage's code.
Launch(cmd, waiting, code) ==
    /\ invoked' = Append(invoked, cmd)
    /\ \/ /\ results' = [results EXCEPT ![cmd.stage] = Running]
          /\ pc' = waiting
          /\ NoExit
       \/ /\ results' = [results EXCEPT ![cmd.stage] = SpawnErr]
          /\ Exit(code)

\* Command::output() returning Ok(Output): the child has ended with status st.
Finish(stage, st, next) ==
    /\ results' = [results EXCEPT ![stage] = st]
    /\ pc' = next

\* metadata_cmd.exec().unwrap(); project_dir = workspace_root
Metadata ==
    /\ pc = "metadata"
    /\ \/ \E dir \in ProjectDirs :
            /\ project_dir' = dir
            /\ pc' = "config"
            /\ NoExit
       \/ /\ Exit(PanicCode)
          /\ UNCHANGED project_dir
    /\ UNCHANGED <<remote_opts, copy_back, no_copy_lock, hidden, conf_result, remote,
                   build_path, output, invoked, results>>

\* match config::Config::new(&project_dir) { Ok(conf) => conf, Err => exit(-3) }
LoadConfig ==
    /\ pc = "config"
    /\ \E c \in ConfigOutcomes :
          IF ~c.ok
          THEN conf_result' = Some(c) /\ Exit(-3)
          ELSE conf_result' = Some(c) /\ pc' = "resolve" /\ NoExit
    /\ UNCHANGED <<remote_opts, copy_back, no_copy_lock, hidden, project_dir, remote,
                   build_path, output, invoked, results>>

\* Mutant: with no remote resolved, the run goes on with an empty remote.
ResolveRemoteOrDefault ==
    /\ pc = "resolve"
    /\ LET r == get_remote(conf, remote_opts)
       IN  remote' = UnwrapOr(r, NoRemote) /\ pc' = "derive" /\ NoExit
    /\ UNCHANGED <<remote_opts, copy_back, no_copy_lock, hidden, project_dir, conf_result,
                   build_path, output, invoked, results>>

\* match conf.get_remote(&remote_opts) { Some(remote) => remote, None => exit(4) }
ResolveRemote ==
    /\ pc = "resolve"
    /\ LET r == get_remote(conf, remote_opts)
       IN  IF r = None
           THEN Exit(4) /\ UNCHANGED remote
           ELSE remote' = r[1] /\ pc' = "derive" /\ NoExit
    /\ UNCHANGED <<remote_opts, copy_back, no_copy_lock, hidden, project_dir, conf_result,
                   build_path, output, invoked, results>>

\* let build_path = format!("{}/{}/", remote.temp_dir, hasher.finish());
DeriveBuildPath ==
    /\ pc = "derive"
    /\ build_path' = BuildPath(project_dir, remote.temp_dir)
    /\ pc' = "push"
    /\ UNCHANGED <<remote_opts, copy_back, no_copy_lock, hidden, project_dir, conf_result,
                   remote, output, invoked, results, exit_code, exit_from>>

Frame == UNCHANGED <<remote_opts, copy_back, no_copy_lock, hidden, project_dir, conf_result,
                     remote, build_path>>

\* Mutant: the rsync child is spawned and not waited for.
PushSpawnNoWait ==
    /\ pc = "push"
    /\ Launch(PushCommand, "ssh", -4)
    /\ UNCHANGED output
    /\ Frame

\* rsync_to ... .output().unwrap_or_else(|e| exit(-4))
PushLaunch ==
    /\ pc = "push"
    /\ Launch(PushCommand, "push_wait", -4)
    /\ UNCHANGED output
    /\ Frame

PushFinish ==
    /\ pc = "push_wait"
    /\ \E st \in RsyncOutcomes : Finish("Push", st, "ssh")
    /\ UNCHANGED <<output, invoked, exit_code, exit_from>>
    /\ Frame

\* let output = Command::new("ssh") ... .output().unwrap_or_else(|e| exit(-5))
SshLaunch ==
    /\ pc = "ssh"
    /\ Launch(SshCommand, "ssh_wait", -5)
    /\ UNCHANGED output
    /\ Frame

\* Mutant: an unsuccessful remote command ends the pipeline at once.
SshFinishFailFast ==
    /\ pc = "ssh_wait"
    /\ \E st \in SshOutcomes :
          /\ Finish("RemoteExecute", st, IF Success(st) THEN "pull_artifact" ELSE "status")
          /\ output' = st
    /\ UNCHANGED <<invoked, exit_code, exit_from>>
    /\ Frame

\* ... .output() returning the ssh ExitStatus, bound to output
SshFinish ==
    /\ pc = "ssh_wait"
    /\ \E st \in SshOutcomes :
          /\ Finish("RemoteExecute", st, "pull_artifact")
          /\ output' = st
    /\ UNCHANGED <<invoked, exit_code, exit_from>>
    /\ Frame

\* if let Some(file_name) = copy_back { ... .output().unwrap_or_else(|e| exit(-6)) }
PullArtifactLaunch ==
    /\ pc = "pull_artifact"
    /\ copy_back # None
    /\ Launch(PullArtifactCommand, "pull_artifact_wait", -6)
    /\ UNCHANGED output
    /\ Frame

PullArtifactFinish ==
    /\ pc = "pull_artifact_wait"
    /\ \E st \in RsyncOutcomes : Finish("PullArtifact", st, "pull_lock")
    /\ UNCHANGED <<output, invoked, exit_code, exit_from>>
    /\ Frame

\* Mutant: without copy_back, the lock file is not pulled either.
PullArtifactSkipBoth ==
    /\ pc = "pull_artifact"
    /\ copy_back = None
    /\ pc' = "status"
    /\ UNCHANGED <<output, invoked, results, exit_code, exit_from>>
    /\ Frame

\* copy_back is None: the if-let body is not entered.
PullArtifactSkip ==
    /\ pc = "pull_artifact"
    /\ copy_back = None
    /\ pc' = "pull_lock"
    /\ UNCHANGED <<output, invoked, results, exit_code, exit_from>>
    /\ Frame

\* Mutant: a failure to launch the Cargo.lock transfer is ignored.
PullLockLaunchIgnoreErr ==
    /\ pc = "pull_lock"
    /\ ~no_copy_lock
    /\ invoked' = Append(invoked, PullLockCommand)
    /\ \/ results' = [results EXCEPT !["PullLock"] = Running] /\ pc' = "pull_lock_wait"
       \/ results' = [results EXCEPT !["PullLock"] = SpawnErr] /\ pc' = "status"
    /\ UNCHANGED <<output, exit_code, exit_from>>
    /\ Frame

\* if !no_copy_lock { ... .output().unwrap_or_else(|e| exit(-7)) }
PullLockLaunch ==
    /\ pc = "pull_lock"
    /\ ~no_copy_lock
    /\ Launch(PullLockCommand, "pull_lock_wait", -7)
    /\ UNCHANGED output
    /\ Frame

\* Mutant: a failed Cargo.lock transfer is tried once more.
PullLockFinishRetryOnce ==
    /\ pc = "pull_lock_wait"
    /\ \E st \in RsyncOutcomes :
          Finish("PullLock", st,
                 IF ~Success(st) /\ Len(invoked) <= 4 THEN "pull_lock" ELSE "status")
    /\ UNCHANGED <<output, invoked, exit_code, exit_from>>
    /\ Frame

PullLockFinish ==
    /\ pc = "pull_lock_wait"
    /\ \E st \in RsyncOutcomes : Finish("PullLock", st, "status")
    /\ UNCHANGED <<output, invoked, exit_code, exit_from>>
    /\ Frame

\* no_copy_lock is set: the if body is not entered.
PullLockSkip ==
    /\ pc = "pull_lock"
    /\ no_copy_lock
    /\ pc' = "status"
    /\ UNCHANGED <<output, invoked, results, exit_code, exit_from>>
    /\ Frame

\* Mutant: an unsuccessful remote command is reported with the fatal code.
FinalStatusFatalCode ==
    /\ pc = "status"
    /\ IF ~Success(output) THEN Exit(-5) ELSE Exit(0)
    /\ UNCHANGED <<output, invoked, results>>
    /\ Frame

\* Mutant: a remote process without an exit code counts as 0.
FinalStatusUnwrapOrZero ==
    /\ pc = "status"
    /\ IF ~Success(output) THEN Exit(UnwrapOr(Code(output), 0)) ELSE Exit(0)
    /\ UNCHANGED <<output, invoked, results>>
    /\ Frame

\* if !output.status.success() { exit(output.status.code().unwrap_or(1)) }
\* and main() returning, which ends the process with status 0.
FinalStatus ==
    /\ pc = "status"
    /\ IF ~Success(output) THEN Exit(UnwrapOr(Code(output), 1)) ELSE Exit(0)
    /\ UNCHANGED <<output, invoked, results>>
    /\ Frame

Next ==
    \/ Metadata
    \/ LoadConfig
    \/ ResolveRemote
    \/ DeriveBuildPath
    \/ PushLaunch
    \/ PushFinish
    \/ SshLaunch
    \/ SshFinish
    \/ PullArtifactLaunch
    \/ PullArtifactFinish
    \/ PullArtifactSkip
    \/ PullLockLaunch
    \/ PullLockFinish
    \/ PullLockSkip
    \/ FinalStatus

Spec == Init /\ [][Next]_vars

\* main() is one sequential thread and every call it makes returns (a launched
\* process eventually ends): while a step is possible, one is taken.
FairSpec == Spec /\ WF_vars(Next)

-----------------------------------------------------------------------------
(* Observations on a run, used by the properties below *)

\* The stages whose command main() has run, in order.
StagesInvoked == [i \in 1..Len(invoked) |-> invoked[i].stage]

WasInvoked(stage) == \E i \in 1..Len(invoked) : invoked[i].stage = stage

\* The stage's process was spawned and has ended.
HasFinished(stage) == results[stage].kind \in {"exit", "signal"}

\* The stage's process could not be launched, or ended unsuccessfully.
StageFailed(stage) ==
    \/ results[stage].kind = "spawn_err"
    \/ HasFinished(stage) /\ ~Success(results[stage])

\* The stage was skipped, or its process ended successfully.
SucceededOrSkipped(stage) == results[stage] \in {NotRun, Exited(0)}

\* The stages a run invokes when nothing fatal happens.
ExpectedStages ==
    <<"Push", "RemoteExecute">>
        \o (IF copy_back # None THEN <<"PullArtifact">> ELSE <<>>)
        \o (IF ~no_copy_lock THEN <<"PullLock">> ELSE <<>>)

StageIndex(stage) ==
    CASE stage = "Push" -> 1 [] stage = "RemoteExecute" -> 2
      [] stage = "PullArtifact" -> 3 [] stage = "PullLock" -> 4

IsPrefix(a, b) == Len(a) <= Len(b) /\ \A i \in 1..Len(a) : a[i] = b[i]

\* The pipeline ran to the final status check: no stage failed to launch.
RanToStatus ==
    \/ pc = "status"
    \/ pc = "exited" /\ exit_from = "status"

\* The 8-bit exit status the caller of the process observes.
ExitStatus(code) == code % 256

\* args holds the pair --exclude pattern.
HasExclude(args, pattern) ==
    \E i \in 1..(Len(args) - 1) : args[i] = "--exclude" /\ args[i + 1] = pattern

-----------------------------------------------------------------------------
(* C1..C10 *)

\* C1: if Push fails (rsync cannot be launched, or it is launched and ends
\* unsuccessfully), RemoteExecute, PullArtifact and PullLock are never invoked
\* and the process exits with -4.
C1_PushFailFast ==
    StageFailed("Push") =>
        /\ ~WasInvoked("RemoteExecute")
        /\ ~WasInvoked("PullArtifact")
        /\ ~WasInvoked("PullLock")
        /\ pc = "exited" => exit_code = -4

\* C2: when Push, PullArtifact and PullLock each succeeded or were skipped and
\* the remote command exited with N # 0, the process exits with N, not with -5.
C2_StatusForwarding ==
    ( /\ pc = "exited"
      /\ output.kind = "exit"
      /\ output.code # 0
      /\ \A s \in {"Push", "PullArtifact", "PullLock"} : SucceededOrSkipped(s) )
    => /\ exit_from = "status"
       /\ exit_code = output.code
       /\ exit_code # -5

C2_Witness ==
    /\ pc = "exited"
    /\ output = Exited(4)
    /\ results["Push"] = Exited(0)
    /\ results["PullArtifact"] = Exited(0)
    /\ results["PullLock"] = NotRun
    /\ exit_code = 4

\* C3: a failure to establish the remote session (ssh cannot be launched, or
\* ssh itself fails, e.g. host unreachable) aborts the run with -5, and
\* PullArtifact and PullLock are never invoked.
C3_SessionFailureFatal ==
    results["RemoteExecute"] \in {SpawnErr, SshSessionFailed} =>
        /\ ~WasInvoked("PullArtifact")
        /\ ~WasInvoked("PullLock")
        /\ pc = "exited" => exit_code = -5

\* C4: with copy_back absent PullArtifact is never invoked, with no_copy_lock
\* set PullLock is never invoked, and the stages that are invoked are, in order,
\* exactly the non-skipped ones (all of them once the run reaches its end).
C4_StageSkip ==
    /\ copy_back = None =>
          ~WasInvoked("PullArtifact") /\ results["PullArtifact"] = NotRun
    /\ no_copy_lock =>
          ~WasInvoked("PullLock") /\ results["PullLock"] = NotRun
    /\ IsPrefix(StagesInvoked, ExpectedStages)
    /\ RanToStatus => StagesInvoked = ExpectedStages

C4_Witness ==
    /\ pc = "exited"
    /\ copy_back = None
    /\ ~no_copy_lock
    /\ StagesInvoked = <<"Push", "RemoteExecute", "PullLock">>
    /\ HasFinished("PullLock")

\* C5: stages are invoked in the order Push, RemoteExecute, PullArtifact,
\* PullLock, each at most once; a stage is launched only after every stage
\* launched before it has finished, so at most one process runs at a time.
C5_OrderNoRetry ==
    /\ \A i, j \in 1..Len(invoked) :
          i < j => StageIndex(invoked[i].stage) < StageIndex(invoked[j].stage)
    /\ \A i \in 1..(Len(invoked) - 1) : HasFinished(invoked[i].stage)
    /\ Cardinality({s \in Stages : results[s] = Running}) <= 1

C5_Witness ==
    /\ Len(invoked) = 4
    /\ results["PullLock"] = Running

\* C6: the exit status (code modulo 256) tells where the run failed: each fatal
\* exit shows its own status, the statuses of -3, 4, -4, -5, -6, -7 are pairwise
\* different, and a forwarded remote status is none of them.
FatalCodes == {-3, 4, -4, -5, -6, -7}

C6_ExitStatusDistinct ==
    /\ \A a, b \in FatalCodes : a # b => ExitStatus(a) # ExitStatus(b)
    /\ ( pc = "exited" /\ exit_from = "status" /\ exit_code # 0 ) =>
          ExitStatus(exit_code) \notin {ExitStatus(c) : c \in FatalCodes}

\* C7: the process exits with 0 exactly when every non-skipped stage was
\* launched and its process ended successfully, the remote command included.
C7_ZeroIffFullSuccess ==
    pc = "exited" =>
        ( exit_code = 0 <=>
            /\ StagesInvoked = ExpectedStages
            /\ \A i \in 1..Len(ExpectedStages) :
                  results[ExpectedStages[i]] = Exited(0) )

\* C8: a failed configuration load exits with -3 before resolution, a
\* resolution that yields no remote exits with 4, and neither invokes a stage.
C8_PrePipelineFailures ==
    /\ ( conf_result # None /\ ~conf_result[1].ok ) =>
          /\ pc = "exited"
          /\ exit_from = "config"
          /\ exit_code = -3
          /\ remote = NoRemote
          /\ invoked = <<>>
    /\ ( /\ conf_result # None
         /\ conf_result[1].ok
         /\ pc # "resolve"
         /\ get_remote(conf, remote_opts) = None ) =>
          /\ pc = "exited"
          /\ exit_from = "resolve"
          /\ exit_code = 4
          /\ invoked = <<>>
          /\ \A s \in Stages : results[s] = NotRun

C8_Witness ==
    /\ pc = "exited"
    /\ exit_code = 4
    /\ conf = {RemoteCi, RemoteDev}
    /\ remote_opts.name = None
    /\ invoked = <<>>

\* C9: once derived, the build path is temp_dir/hash(project_root)/ and nothing
\* else; for the run's temp_dir, another project root derives the same path
\* exactly when it has the same hash.
C9_BuildPathDerivation ==
    pc \in {"push", "push_wait", "ssh", "ssh_wait", "pull_artifact",
            "pull_artifact_wait", "pull_lock", "pull_lock_wait", "status"} =>
        /\ build_path = remote.temp_dir \o "/" \o Decimal(HashOf(project_dir)) \o "/"
        /\ \A dir \in ProjectDirs :
              BuildPath(dir, remote.temp_dir) = build_path
                  <=> HashOf(dir) = HashOf(project_dir)

C9_Witness ==
    /\ pc = "push"
    /\ project_dir = "/srv/app"
    /\ remote.host = "cli.example.org"
    /\ build_path = "/tmp/builds/1844674407/"

\* C10: the Push command always excludes target, and excludes .* exactly when
\* hidden (--transfer-hidden) is false.
C10_PushExclusion ==
    \A i \in 1..Len(invoked) :
        invoked[i].stage = "Push" =>
            /\ HasExclude(invoked[i].args, "target")
            /\ HasExclude(invoked[i].args, ".*") <=> ~hidden

C10_Witness ==
    /\ WasInvoked("Push")
    /\ hidden
    /\ ~HasExclude(invoked[1].args, ".*")
    /\ HasExclude(invoked[1].args, "target")

-----------------------------------------------------------------------------
(* C11..C19 *)

\* The command main() ran for the stage (the stage was invoked).
CommandOf(stage) == invoked[CHOOSE i \in 1..Len(invoked) : invoked[i].stage = stage]

HasArg(args, arg) == \E i \in 1..Len(args) : args[i] = arg

\* The argument following the option opt in args.
ArgAfter(args, opt) == args[(CHOOSE i \in 1..(Len(args) - 1) : args[i] = opt) + 1]

\* The host the stage's command addresses: h of the h:path operand of rsync,
\* the destination operand of ssh.
AddressesHost(cmd, h) ==
    CASE cmd.stage = "Push" ->
            cmd.args[Len(cmd.args)] = h \o ":" \o build_path
      [] cmd.stage = "RemoteExecute" ->
            cmd.args[4] = h
      [] cmd.stage = "PullArtifact" ->
            cmd.args[Len(cmd.args) - 1] = h \o ":" \o build_path \o "target/" \o file_name
      [] cmd.stage = "PullLock" ->
            cmd.args[Len(cmd.args) - 1] = h \o ":" \o build_path \o "Cargo.lock"

\* C11: once the remote is resolved, every field given on the command line is
\* the resolved value, whatever the selected profile holds, and every invoked
\* stage addresses the overriding host.
C11_OverridePrecedence ==
    ( /\ pc \notin {"metadata", "config", "resolve"}
      /\ exit_from \notin {"metadata", "config", "resolve"} ) =>
        /\ \A f \in {"host", "ssh_port", "temp_dir", "env"} :
              remote_opts[f] # None => remote[f] = remote_opts[f][1]
        /\ remote_opts.host # None =>
              \A i \in 1..Len(invoked) : AddressesHost(invoked[i], remote_opts.host[1])

C11_Witness ==
    /\ Len(invoked) = 4
    /\ remote_opts.name = Some("ci")
    /\ remote_opts.host = Some("cli.example.org")
    /\ RemoteCi \in conf
    /\ remote.host = "cli.example.org"
    /\ remote.temp_dir = "/tmp/builds"

\* C12 (as claimed): PullArtifact runs rsync with -a, --delete, --compress and,
\* when hidden is false, the --exclude .* of Push.
C12_PullSamePolicy ==
    WasInvoked("PullArtifact") =>
        LET args == CommandOf("PullArtifact").args
        IN  /\ HasArg(args, "-a") /\ HasArg(args, "--delete") /\ HasArg(args, "--compress")
            /\ ~hidden => HasExclude(args, ".*")

\* C12 (amended): PullArtifact runs rsync with -a, --delete, --compress over
\* the ssh transport of Push, and has no --exclude at all, whatever hidden is.
C12_PullPolicyNoExclude ==
    WasInvoked("PullArtifact") =>
        LET args == CommandOf("PullArtifact").args
            push == CommandOf("Push").args
        IN  /\ CommandOf("PullArtifact").prog = "rsync"
            /\ HasArg(args, "-a") /\ HasArg(args, "--delete") /\ HasArg(args, "--compress")
            /\ ArgAfter(args, "-e") = ArgAfter(push, "-e")
            /\ ~HasArg(args, "--exclude")

C12_Witness ==
    /\ WasInvoked("PullArtifact")
    /\ ~hidden
    /\ HasExclude(CommandOf("Push").args, ".*")
    /\ ~HasArg(CommandOf("PullArtifact").args, "--exclude")
    /\ HasFinished("PullArtifact")

\* C13: the directory Push has the remote side create (mkdir -p, in the
\* --rsync-path command) before the transfer is temp_dir, the parent of the
\* derived build_path.
C13_MkdirParent ==
    WasInvoked("Push") =>
        ArgAfter(CommandOf("Push").args, "--rsync-path")
            = "mkdir -p " \o remote.temp_dir \o " && rsync"

\* C14: with copy_back present without a name PullArtifact transfers
\* build_path/target/ to project_dir/target/; with a name, build_path/target/name
\* to project_dir/target/name.
C14_CopyBackSelection ==
    WasInvoked("PullArtifact") =>
        LET args == CommandOf("PullArtifact").args
            from == args[Len(args) - 1]
            to == args[Len(args)]
            remote_target == remote.host \o ":" \o build_path \o "target/"
            local_target == project_dir \o "/target/"
        IN  /\ copy_back = Some(None) => from = remote_target /\ to = local_target
            /\ copy_back # None /\ copy_back[1] # None =>
                  /\ from = remote_target \o copy_back[1][1]
                  /\ to = local_target \o copy_back[1][1]

C14_Witness ==
    /\ copy_back = Some(Some("app"))
    /\ WasInvoked("PullArtifact")
    /\ CommandOf("PullArtifact").args[8] = "/home/u/web/target/app"
    /\ CommandOf("PullArtifact").args[7] = "dev.local:rust/96025/target/app"

\* The stage's command addresses host h on ssh port p and build path bp.
Addresses(cmd, h, p, bp) ==
    CASE cmd.stage = "Push" ->
            /\ ArgAfter(cmd.args, "-e") = "ssh -p " \o Decimal(p)
            /\ cmd.args[Len(cmd.args)] = h \o ":" \o bp
      [] cmd.stage = "RemoteExecute" ->
            /\ ArgAfter(cmd.args, "-p") = Decimal(p)
            /\ cmd.args[4] = h
            /\ cmd.args[5] = "source " \o remote.env \o "; cd " \o bp \o "; nix-shell;"
      [] cmd.stage = "PullArtifact" ->
            /\ ArgAfter(cmd.args, "-e") = "ssh -p " \o Decimal(p)
            /\ cmd.args[Len(cmd.args) - 1] = h \o ":" \o bp \o "target/" \o file_name
      [] cmd.stage = "PullLock" ->
            /\ ArgAfter(cmd.args, "-e") = "ssh -p " \o Decimal(p)
            /\ cmd.args[Len(cmd.args) - 1] = h \o ":" \o bp \o "Cargo.lock"

\* What is fixed once the build path is derived.
BuildContext ==
    <<remote, build_path, project_dir, copy_back, no_copy_lock, hidden, remote_opts>>

\* C15: from the derivation of the build path on, no step changes the resolved
\* remote (host, ssh_port, temp_dir, env), build_path, copy_back or the flags,
\* and every stage invoked so far addresses the same host, port and build_path.
C15_ContextFixed ==
    [][ pc \notin {"metadata", "config", "resolve", "derive"} =>
          /\ BuildContext' = BuildContext
          /\ \A i \in 1..Len(invoked') :
                Addresses(invoked'[i], remote'.host, remote'.ssh_port, build_path') ]_vars

C15_Witness ==
    /\ Len(invoked) = 4
    /\ remote.ssh_port = 2200
    /\ \A i \in 1..4 : Addresses(invoked[i], "build.example.com", 2200, build_path)

\* C16 (as claimed): in a run whose ssh process was launched and has ended,
\* PullArtifact (copy_back present) and PullLock (no_copy_lock false) have been
\* invoked by the time the process exits, whatever the remote status.
C16_PullsAlwaysInvoked ==
    ( pc = "exited" /\ HasFinished("RemoteExecute") ) =>
        /\ copy_back # None => WasInvoked("PullArtifact")
        /\ ~no_copy_lock => WasInvoked("PullLock")

\* C16 (amended): as claimed, except that PullLock is not invoked when
\* PullArtifact could not be launched; the remote status decides the exit code
\* only after the pull stages invoked have ended.
C16_PullsIndependentOfStatus ==
    ( pc = "exited" /\ HasFinished("RemoteExecute") ) =>
        /\ copy_back # None => WasInvoked("PullArtifact")
        /\ ( ~no_copy_lock /\ results["PullArtifact"] # SpawnErr ) => WasInvoked("PullLock")
        /\ exit_from = "status" =>
              \A s \in {"PullArtifact", "PullLock"} : WasInvoked(s) => HasFinished(s)
        /\ exit_from # "status" => exit_code \in {-6, -7}

C16_Witness ==
    /\ pc = "exited"
    /\ output = Exited(1)
    /\ HasFinished("PullArtifact")
    /\ HasFinished("PullLock")
    /\ exit_code = 1

\* C17: when PullArtifact (PullLock) cannot be launched the process exits with
\* -6 (-7), also after a remote command that exited with N # 0, and after a
\* PullArtifact launch failure PullLock is never invoked.
C17_PullLaunchFailureWins ==
    /\ results["PullArtifact"] = SpawnErr =>
          /\ pc = "exited"
          /\ exit_code = -6
          /\ ~WasInvoked("PullLock")
    /\ results["PullLock"] = SpawnErr =>
          /\ pc = "exited"
          /\ exit_code = -7
    /\ ( \E s \in {"PullArtifact", "PullLock"} : results[s] = SpawnErr ) =>
          ~( output.kind = "exit" /\ exit_code = output.code )

C17_Witness ==
    /\ output = Exited(4)
    /\ results["PullArtifact"] = Exited(0)
    /\ results["PullLock"] = SpawnErr
    /\ exit_code = -7

\* C18: when the ssh process ended without an exit code and the run reaches the
\* final status check, the process exits with 1; the exit code is never 0 when
\* the ssh process ended unsuccessfully.
C18_NoCodeExitsOne ==
    pc = "exited" =>
        /\ ( output = Signaled /\ exit_from = "status" ) => exit_code = 1
        /\ ( output # NotRun /\ ~Success(output) ) =>
              exit_code # 0 /\ ExitStatus(exit_code) # 0

C18_Witness ==
    /\ pc = "exited"
    /\ output = Signaled
    /\ exit_from = "status"
    /\ exit_code = 1

\* C19: every run eventually exits; once exited nothing more happens (one exit
\* code, no stage invoked afterwards); at most four stage processes are invoked.
C19_Termination ==
    /\ <>(pc = "exited")
    /\ [](Len(invoked) <= 4)
    /\ [][pc = "exited" => FALSE]_vars

C19_Witness ==
    /\ pc = "exited"
    /\ exit_from = "status"
    /\ Len(invoked) = 4
    /\ exit_code = 0

====
